---- MODULE Spec2Model ----
(***************************************************************************)
(* State-machine model of the devotee-services API (src/main.py,           *)
(* src/schemas.py).  The document store is a set of named collections,     *)
(* each a sequence of documents in insertion (natural) order.  Every       *)
(* request handler is one action; register and login, which read the user  *)
(* collection and write it in a second store round trip, are two actions   *)
(* each, so that concurrent requests interleave between the read and the   *)
(* write.  Fields that no handler ever reads back (name, phone, title,     *)
(* description, time, amenities, content, tags, message, receipt_no,       *)
(* token_issued_at, updated_at) are left out of the documents.             *)
(***************************************************************************)
EXTENDS Integers, Sequences, FiniteSets, Bags, TLC

VARIABLES
    users,            \* db["devoteeuser"]
    sevas,            \* db["seva"]
    rooms,            \* db["room"]
    sevabookings,     \* db["sevabooking"]
    roombookings,     \* db["roombooking"]
    newsposts,        \* db["newspost"]
    contactmessages,  \* db["contactmessage"]
    pending,          \* register/login requests between their read and their write
    tokenLog,         \* history: every <<user _id, token>> issued, in issue order
    nwrites,          \* number of requests that have written to the store
    now,              \* the clock read by create_document
    last              \* the response being delivered, with the request it answers

store == <<users, sevas, rooms, sevabookings, roombookings, newsposts, contactmessages>>
vars == <<users, sevas, rooms, sevabookings, roombookings, newsposts, contactmessages,
          pending, tokenLog, nwrites, now, last>>

(***************************************************************************)
(* Bounds of the model.                                                    *)
(***************************************************************************)
MaxWrites == 2       \* writing requests per behaviour
MaxInflight == 2     \* register/login requests between read and write
MaxDay == 4          \* dates are day numbers 1..MaxDay
MaxClock == 1        \* the clock runs 0..MaxClock

(***************************************************************************)
(* Values.                                                                 *)
(***************************************************************************)
Emails == {"root@x", "a@x"}
Passwords == {"p", "q"}
Days == 1..MaxDay

\* An ObjectId is <<collection, n>>: the n-th document inserted in that
\* collection.  str(_id) is its 24-hex rendering; a client-supplied id is any
\* text, well-formed (24 hex digits) or not.
Str(oid) == <<"hex24", oid[1], oid[2]>>
MalformedId == <<"text", "abc", 0>>
\* the ids clients present: the first seva, the first room, a room id the seed
\* never assigns, and a text that is no ObjectId
IdTexts == {Str(<<"seva", 1>>), Str(<<"room", 1>>), Str(<<"room", 3>>), MalformedId}
InvalidId == <<"InvalidId", 0>>

\* bson.ObjectId(text): the id, or InvalidId raised for text that is not 24 hex digits
ObjectId(text) == IF text[1] = "hex24" THEN <<text[2], text[3]>> ELSE InvalidId

NoToken == 0         \* session_token absent / None
NoResp == [op |-> "none", status |-> 0]

\* find_one({field: value}): the index of the first document (natural order)
\* whose field equals value, 0 for None
FindOne(coll, field, value) ==
    LET hits == {i \in DOMAIN coll : coll[i][field] = value}
    IN IF hits = {} THEN 0 ELSE CHOOSE i \in hits : \A j \in hits : i <= j

\* find({field: value}): the documents of coll whose field equals value, in order
Find(coll, field, value) == SelectSeq(coll, LAMBDA x : x[field] = value)

(***************************************************************************)
(* Credential hasher.                                                      *)
(***************************************************************************)
\* hashlib.pbkdf2_hmac("sha256", password, salt, 100_000): collision-free
Pbkdf2(password, salt) == <<password, salt>>

\* "salt$hexhash", kept as its "$"-separated parts
HashPassword(password, salt) == <<<<"salt", salt>>, Pbkdf2(password, salt)>>

\* stored.split("$") must give exactly two parts, else the except branch
VerifyPassword(password, stored) ==
    IF Len(stored) = 2 THEN Pbkdf2(password, stored[1][2]) = stored[2] ELSE FALSE

(***************************************************************************)
(* Authorization header and session lookup.                                *)
(***************************************************************************)
\* A header is absent, or a prefix followed by a token text.  Token texts are
\* numbers; 0 is the empty text.
NoHeader == [present |-> FALSE, prefix |-> "", text |-> 0]
Prefixes == {"", "bEARER "}
TokenTexts == 0..(MaxWrites + 1)
\* a header of another scheme carrying a token text
OtherScheme == [present |-> TRUE, prefix |-> "Token ", text |-> 1]
Headers == {NoHeader, OtherScheme} \cup
           {[present |-> TRUE, prefix |-> p, text |-> t] : p \in Prefixes, t \in TokenTexts}

\* str.lower() on the part of the header before the token
Lower(prefix) == CASE prefix = "bEARER " -> "bearer "
                   [] prefix = "Token " -> "token "
                   [] OTHER -> prefix

\* "if not token": None or the empty string
HeaderEmpty(h) == ~h.present \/ (h.prefix = "" /\ h.text = 0)

\* token.split(" ", 1)[1] when the lowered header starts with "bearer "; a raw
\* token is looked up as it is; a header with another prefix is looked up whole
\* and equals no uuid hex
StripBearer(h) == IF Lower(h.prefix) = "bearer " THEN h.text
                  ELSE IF h.prefix = "" THEN h.text ELSE NoToken

NoUser == [oid |-> <<"devoteeuser", 0>>, email |-> "", password_hash |-> <<>>,
           is_admin |-> FALSE, session_token |-> NoToken, created_at |-> 0]

\* get_user_by_token against a user collection
GetUserByTokenIn(coll, h) ==
    IF HeaderEmpty(h)
    THEN [status |-> 401, detail |-> "Missing Authorization header", user |-> NoUser]
    ELSE LET token == StripBearer(h)
             i == IF token = NoToken THEN 0 ELSE FindOne(coll, "session_token", token)
         IN IF i = 0
            THEN [status |-> 401, detail |-> "Invalid or expired token", user |-> NoUser]
            ELSE [status |-> 200, detail |-> "", user |-> coll[i]]

GetUserByToken(h) == GetUserByTokenIn(users, h)

\* faulty variant: the is_admin test is missing
RequireAdminNoRoleCheck(h) ==
    LET auth == GetUserByToken(h)
    IN IF auth.status # 200 THEN auth @@ [adminChecked |-> FALSE]
       ELSE auth @@ [adminChecked |-> TRUE]

\* require_admin: runs only once get_user_by_token has returned a user
RequireAdmin(h) ==
    LET auth == GetUserByToken(h)
    IN IF auth.status # 200 THEN auth @@ [adminChecked |-> FALSE]
       ELSE IF ~auth.user.is_admin
       THEN [status |-> 403, detail |-> "Admin access required", user |-> auth.user,
             adminChecked |-> TRUE]
       ELSE auth @@ [adminChecked |-> TRUE]

\* uuid4().hex: a value never drawn before
NewToken == Len(tokenLog) + 1
\* secrets.token_hex(16): a value never drawn before
NewSalt == Len(users) + 1

\* database.create_document: stamps created_at and inserts; the store assigns _id
CreateDocument(name, coll, data) ==
    Append(coll, data @@ [oid |-> <<name, Len(coll) + 1>>, created_at |-> now])

\* the text create_document returns: str(inserted_id)
InsertedId(name, coll) == Str(<<name, Len(coll) + 1>>)

\* faulty variant: the update keeps a token that is already set
SetSessionTokenKeepsOld(coll, oid, token) ==
    [i \in DOMAIN coll |-> IF coll[i].oid = oid /\ coll[i].session_token = NoToken
                           THEN [coll[i] EXCEPT !.session_token = token]
                           ELSE coll[i]]

\* update_one({"_id": ...}, {"$set": {"session_token": token}})
SetSessionToken(coll, oid, token) ==
    [i \in DOMAIN coll |-> IF coll[i].oid = oid
                           THEN [coll[i] EXCEPT !.session_token = token]
                           ELSE coll[i]]

\* a response that ends the request before the handler body has written
Denied(op, status, detail) == [op |-> op, status |-> status, detail |-> detail]

(***************************************************************************)
(* Initial states: an empty store holding the externally provisioned       *)
(* admin, who has not logged in yet or has logged in once (token 1).       *)
(***************************************************************************)
AdminUser == [oid |-> <<"devoteeuser", 1>>, email |-> "root@x",
              password_hash |-> HashPassword("p", 1),
              is_admin |-> TRUE, session_token |-> NoToken, created_at |-> 0]

Init ==
    /\ \/ users = <<AdminUser>> /\ tokenLog = <<>>
       \/ /\ users = SetSessionToken(<<AdminUser>>, AdminUser.oid, 1)
          /\ tokenLog = <<<<AdminUser.oid, 1>>>>
    /\ sevas = <<>>
    /\ rooms = <<>>
    /\ sevabookings = <<>>
    /\ roombookings = <<>>
    /\ newsposts = <<>>
    /\ contactmessages = <<>>
    /\ pending = EmptyBag
    /\ nwrites = 0
    /\ now = 0
    /\ last = NoResp

\* a handler runs when the previous response has been delivered
Idle == last = NoResp
Budget == nwrites < MaxWrites

(***************************************************************************)
(* GET / and GET /test                                                     *)
(***************************************************************************)
ReadRoot ==
    /\ Idle
    /\ last' = [op |-> "read_root", status |-> 200]
    /\ UNCHANGED <<store, pending, tokenLog, nwrites, now>>

\* db.list_collection_names(): the collections that hold a document
CollectionNames ==
    {"devoteeuser"} \cup (IF sevas # <<>> THEN {"seva"} ELSE {})
                    \cup (IF rooms # <<>> THEN {"room"} ELSE {})
                    \cup (IF sevabookings # <<>> THEN {"sevabooking"} ELSE {})
                    \cup (IF roombookings # <<>> THEN {"roombooking"} ELSE {})
                    \cup (IF newsposts # <<>> THEN {"newspost"} ELSE {})
                    \cup (IF contactmessages # <<>> THEN {"contactmessage"} ELSE {})

TestDatabase ==
    /\ Idle
    /\ last' = [op |-> "test_database", status |-> 200, body |-> CollectionNames]
    /\ UNCHANGED <<store, pending, tokenLog, nwrites, now>>

(***************************************************************************)
(* POST /api/auth/register                                                 *)
(***************************************************************************)
RegisterPayloads == [email : Emails, password : {"q"}]

\* faulty variant: the existing-email test is missing
RegisterFindNoCheck(payload) ==
    /\ Idle
    /\ BagCardinality(pending) < MaxInflight
    /\ pending' = pending (+) SetToBag({[op |-> "register", payload |-> payload]})
    /\ last' = last
    /\ UNCHANGED <<store, tokenLog, nwrites, now>>

\* line 150-152: the read; a request that finds no user goes on to the write
RegisterFind(payload) ==
    /\ Idle
    /\ LET existing == FindOne(users, "email", payload.email)
       IN IF existing # 0
          THEN /\ last' = Denied("register", 400, "Email already registered")
                            @@ [payload |-> payload]
               /\ UNCHANGED pending
          ELSE /\ BagCardinality(pending) < MaxInflight
               /\ pending' = pending (+) SetToBag({[op |-> "register", payload |-> payload]})
               /\ last' = last
    /\ UNCHANGED <<store, tokenLog, nwrites, now>>

\* line 153-164: hash, token, insert
RegisterInsert(req) ==
    /\ Idle
    /\ Budget
    /\ req.op = "register"
    /\ BagIn(req, pending)
    /\ LET token == NewToken
           oid == <<"devoteeuser", Len(users) + 1>>
           to_insert == [email |-> req.payload.email,
                         password_hash |-> HashPassword(req.payload.password, NewSalt),
                         is_admin |-> FALSE, session_token |-> token]
       IN /\ users' = CreateDocument("devoteeuser", users, to_insert)
          /\ tokenLog' = Append(tokenLog, <<oid, token>>)
          /\ last' = [op |-> "register", status |-> 200, payload |-> req.payload,
                      token |-> token, email |-> to_insert.email, is_admin |-> FALSE,
                      oid |-> oid]
    /\ pending' = pending (-) SetToBag({req})
    /\ nwrites' = nwrites + 1
    /\ UNCHANGED <<sevas, rooms, sevabookings, roombookings, newsposts, contactmessages, now>>

(***************************************************************************)
(* POST /api/auth/login                                                    *)
(***************************************************************************)
LoginPayloads == [email : Emails \cup {"n@x"}, password : Passwords]

\* line 169-173: the read and the password check
LoginFind(payload) ==
    /\ Idle
    /\ LET i == FindOne(users, "email", payload.email)
           stored == IF i = 0 THEN <<>> ELSE users[i].password_hash
       IN IF i = 0 \/ ~VerifyPassword(payload.password, stored)
          THEN /\ last' = Denied("login", 400, "Invalid credentials") @@ [payload |-> payload]
               /\ UNCHANGED pending
          ELSE /\ BagCardinality(pending) < MaxInflight
               /\ pending' = pending (+) SetToBag({[op |-> "login", payload |-> payload,
                                                    user |-> [oid |-> users[i].oid,
                                                              email |-> users[i].email,
                                                              is_admin |-> users[i].is_admin]]})
               /\ last' = last
    /\ UNCHANGED <<store, tokenLog, nwrites, now>>

\* line 174-176: new token, update by _id, respond from the document read earlier
LoginUpdate(req) ==
    /\ Idle
    /\ Budget
    /\ req.op = "login"
    /\ BagIn(req, pending)
    /\ LET token == NewToken
       IN /\ users' = SetSessionToken(users, req.user.oid, token)
          /\ tokenLog' = Append(tokenLog, <<req.user.oid, token>>)
          /\ last' = [op |-> "login", status |-> 200, payload |-> req.payload,
                      token |-> token, email |-> req.user.email,
                      is_admin |-> req.user.is_admin, oid |-> req.user.oid]
    /\ pending' = pending (-) SetToBag({req})
    /\ nwrites' = nwrites + 1
    /\ UNCHANGED <<sevas, rooms, sevabookings, roombookings, newsposts, contactmessages, now>>

(***************************************************************************)
(* GET /api/auth/me                                                        *)
(***************************************************************************)
\* serialize_doc: _id leaves as the text "id"
SerializeDoc(doc) ==
    [f \in (DOMAIN doc \ {"oid"}) \cup {"id"} |-> IF f = "id" THEN Str(doc.oid) ELSE doc[f]]

Me(h) ==
    /\ Idle
    /\ LET auth == GetUserByToken(h)
       IN last' = IF auth.status # 200
                  THEN Denied("me", auth.status, auth.detail)
                  ELSE [op |-> "me", status |-> 200, caller |-> auth.user.oid,
                        body |-> SerializeDoc(auth.user)]
    /\ UNCHANGED <<store, pending, tokenLog, nwrites, now>>

(***************************************************************************)
(* Schema constraints (src/schemas.py).  A model built inside a handler    *)
(* that violates its Field constraints raises there: a 500 response.       *)
(***************************************************************************)
ValidSeva(d) == d.cost >= 0
ValidRoom(d) == d.capacity >= 1 /\ d.price >= 0
ValidSevabooking(d) == d.quantity >= 1 /\ d.amount >= 0
ValidRoombooking(d) == d.guests >= 1 /\ d.amount >= 0

ServerError(op) == Denied(op, 500, "Internal Server Error")

(***************************************************************************)
(* Sevas and rooms                                                         *)
(***************************************************************************)
ListSevas ==
    /\ Idle
    /\ last' = [op |-> "list_sevas", status |-> 200,
                body |-> [i \in DOMAIN sevas |-> SerializeDoc(sevas[i])]]
    /\ UNCHANGED <<store, pending, tokenLog, nwrites, now>>

ListRooms ==
    /\ Idle
    /\ last' = [op |-> "list_rooms", status |-> 200,
                body |-> [i \in DOMAIN rooms |-> SerializeDoc(rooms[i])]]
    /\ UNCHANGED <<store, pending, tokenLog, nwrites, now>>

\* SevaCreate carries no constraint on cost
SevaCreatePayloads == [cost : {-1, 100}]

\* the gate's answer for a request the dependency turned away
Gated(op, gate) == Denied(op, gate.status, gate.detail) @@ [adminChecked |-> gate.adminChecked]

\* line 203-205, run once require_admin has passed
CreateSevaBody(payload) ==
    IF ~ValidSeva(payload)
    THEN /\ last' = ServerError("create_seva") @@ [adminChecked |-> TRUE]
         /\ UNCHANGED <<sevas, nwrites>>
    ELSE /\ Budget
         /\ sevas' = CreateDocument("seva", sevas, payload)
         /\ nwrites' = nwrites + 1
         /\ last' = [op |-> "create_seva", status |-> 200, adminChecked |-> TRUE,
                     id |-> InsertedId("seva", sevas)]

CreateSeva(h) ==
    /\ Idle
    /\ LET gate == RequireAdmin(h)
       IN IF gate.status # 200
          THEN /\ last' = Gated("create_seva", gate)
               /\ UNCHANGED <<sevas, nwrites>>
          ELSE \E payload \in SevaCreatePayloads : CreateSevaBody(payload)
    /\ UNCHANGED <<users, rooms, sevabookings, roombookings, newsposts, contactmessages,
                   pending, tokenLog, now>>

\* RoomCreate carries no constraint on capacity or price
RoomCreatePayloads == {[capacity |-> 2, price |-> 800], [capacity |-> 0, price |-> 800],
                       [capacity |-> 2, price |-> -1]}

\* line 223-225, run once require_admin has passed
CreateRoomBody(payload) ==
    IF ~ValidRoom(payload)
    THEN /\ last' = ServerError("create_room") @@ [adminChecked |-> TRUE]
         /\ UNCHANGED <<rooms, nwrites>>
    ELSE /\ Budget
         /\ rooms' = CreateDocument("room", rooms, payload)
         /\ nwrites' = nwrites + 1
         /\ last' = [op |-> "create_room", status |-> 200, adminChecked |-> TRUE,
                     id |-> InsertedId("room", rooms)]

CreateRoom(h) ==
    /\ Idle
    /\ LET gate == RequireAdmin(h)
       IN IF gate.status # 200
          THEN /\ last' = Gated("create_room", gate)
               /\ UNCHANGED <<rooms, nwrites>>
          ELSE \E payload \in RoomCreatePayloads : CreateRoomBody(payload)
    /\ UNCHANGED <<users, sevas, sevabookings, roombookings, newsposts, contactmessages,
                   pending, tokenLog, now>>

(***************************************************************************)
(* Bookings                                                                *)
(***************************************************************************)
\* SevaBookingCreate carries no constraint on quantity
SevaBookingPayloads == [seva_id : IdTexts, date : {1}, quantity : 0..2]

\* cost * quantity (line 244)
SevaAmount(cost, quantity) == cost * quantity

\* line 240-254, run once get_user_by_token has returned user
BookSevaBody(user, payload) ==
    LET oid == ObjectId(payload.seva_id)
        i == FindOne(sevas, "oid", oid)
        amount == SevaAmount(sevas[i].cost, payload.quantity)
        model == [user_email |-> user.email, seva_id |-> payload.seva_id,
                  date |-> payload.date, quantity |-> payload.quantity,
                  amount |-> amount, status |-> "confirmed"]
        ran == [caller |-> user.oid, quantity |-> payload.quantity]
    IN IF oid = InvalidId
       THEN /\ last' = ServerError("book_seva") @@ ran
                         @@ [lookedUp |-> FALSE, computed |-> FALSE]
            /\ UNCHANGED <<sevabookings, nwrites>>
       ELSE IF i = 0
       THEN /\ last' = Denied("book_seva", 404, "Seva not found") @@ ran
                         @@ [lookedUp |-> TRUE, computed |-> FALSE]
            /\ UNCHANGED <<sevabookings, nwrites>>
       ELSE IF ~ValidSevabooking(model)
       THEN /\ last' = ServerError("book_seva") @@ ran
                         @@ [lookedUp |-> TRUE, computed |-> TRUE]
            /\ UNCHANGED <<sevabookings, nwrites>>
       ELSE /\ Budget
            /\ sevabookings' = CreateDocument("sevabooking", sevabookings, model)
            /\ nwrites' = nwrites + 1
            /\ last' = [op |-> "book_seva", status |-> 200,
                        id |-> InsertedId("sevabooking", sevabookings)]
                         @@ ran @@ [lookedUp |-> TRUE, computed |-> TRUE]

BookSeva(h) ==
    /\ Idle
    /\ LET auth == GetUserByToken(h)
       IN IF auth.status # 200
          THEN /\ last' = Denied("book_seva", auth.status, auth.detail)
               /\ UNCHANGED <<sevabookings, nwrites>>
          ELSE \E payload \in SevaBookingPayloads : BookSevaBody(auth.user, payload)
    /\ UNCHANGED <<users, sevas, rooms, roombookings, newsposts, contactmessages,
                   pending, tokenLog, now>>

\* RoomBookingCreate carries no constraint on guests
RoomBookingPayloads == [room_id : IdTexts, check_in : {2}, check_out : Days, guests : 0..1]

\* (check_out - check_in).days
Nights(check_in, check_out) == check_out - check_in

Max(a, b) == IF a >= b THEN a ELSE b

\* faulty variant: the nights are not multiplied in
RoomAmountOneNight(price, nights) == price * Max(1, 1)

\* price * max(1, nights) (line 273)
RoomAmount(price, nights) == price * Max(1, nights)

\* faulty variant: the booking is inserted before the date range is checked
BookRoomBodyInsertsFirst(user, payload) ==
    LET oid == ObjectId(payload.room_id)
        i == FindOne(rooms, "oid", oid)
        nights == Nights(payload.check_in, payload.check_out)
        model == [user_email |-> user.email, room_id |-> payload.room_id,
                  check_in |-> payload.check_in, check_out |-> payload.check_out,
                  guests |-> payload.guests, amount |-> RoomAmount(rooms[i].price, nights),
                  status |-> "confirmed"]
    IN /\ oid # InvalidId /\ i # 0 /\ ValidRoombooking(model)
       /\ Budget
       /\ roombookings' = CreateDocument("roombooking", roombookings, model)
       /\ nwrites' = nwrites + 1
       /\ last' = IF nights <= 0
                  THEN Denied("book_room", 400, "Check-out must be after check-in")
                         @@ [caller |-> user.oid]
                  ELSE [op |-> "book_room", status |-> 200, caller |-> user.oid,
                        id |-> InsertedId("roombooking", roombookings)]

\* line 266-284, run once get_user_by_token has returned user
BookRoomBody(user, payload) ==
    LET oid == ObjectId(payload.room_id)
        i == FindOne(rooms, "oid", oid)
        nights == Nights(payload.check_in, payload.check_out)
        amount == RoomAmount(rooms[i].price, nights)
        model == [user_email |-> user.email, room_id |-> payload.room_id,
                  check_in |-> payload.check_in, check_out |-> payload.check_out,
                  guests |-> payload.guests, amount |-> amount, status |-> "confirmed"]
        ran == [caller |-> user.oid]
    IN IF oid = InvalidId
       THEN /\ last' = ServerError("book_room") @@ ran
            /\ UNCHANGED <<roombookings, nwrites>>
       ELSE IF i = 0
       THEN /\ last' = Denied("book_room", 404, "Room not found") @@ ran
            /\ UNCHANGED <<roombookings, nwrites>>
       ELSE IF nights <= 0
       THEN /\ last' = Denied("book_room", 400, "Check-out must be after check-in") @@ ran
            /\ UNCHANGED <<roombookings, nwrites>>
       ELSE IF ~ValidRoombooking(model)
       THEN /\ last' = ServerError("book_room") @@ ran
            /\ UNCHANGED <<roombookings, nwrites>>
       ELSE /\ Budget
            /\ roombookings' = CreateDocument("roombooking", roombookings, model)
            /\ nwrites' = nwrites + 1
            /\ last' = [op |-> "book_room", status |-> 200,
                        id |-> InsertedId("roombooking", roombookings)] @@ ran

BookRoom(h) ==
    /\ Idle
    /\ LET auth == GetUserByToken(h)
       IN IF auth.status # 200
          THEN /\ last' = Denied("book_room", auth.status, auth.detail)
               /\ UNCHANGED <<roombookings, nwrites>>
          ELSE \E payload \in RoomBookingPayloads : BookRoomBody(auth.user, payload)
    /\ UNCHANGED <<users, sevas, rooms, sevabookings, newsposts, contactmessages,
                   pending, tokenLog, now>>

\* find(...).sort(key, -1): every order of the found documents that is
\* descending in key; the store leaves the order of equal keys open
FindSorted(hits, key) ==
    LET n == Len(hits)
        orders == {p \in [1..n -> 1..n] :
                     /\ \A a, b \in 1..n : a # b => p[a] # p[b]
                     /\ \A a, b \in 1..n : a < b => hits[p[a]][key] >= hits[p[b]][key]}
    IN {[a \in 1..n |-> hits[p[a]]] : p \in orders}

\* faulty variant: the user_email filter is missing
OwnBookingsUnfiltered(coll, email) == FindSorted(coll, "created_at")

\* db[collection].find({"user_email": email}).sort("created_at", -1)
OwnBookings(coll, email) == FindSorted(Find(coll, "user_email", email), "created_at")

Serialized(docs) == [a \in DOMAIN docs |-> SerializeDoc(docs[a])]

Kinds == {"seva", "room", "none", "other"}

MyBookings(h, kind) ==
    /\ Idle
    /\ LET auth == GetUserByToken(h)
       IN IF auth.status # 200
          THEN last' = Denied("my_bookings", auth.status, auth.detail)
          ELSE \E s \in OwnBookings(sevabookings, auth.user.email),
                  r \in OwnBookings(roombookings, auth.user.email) :
                 last' = [op |-> "my_bookings", status |-> 200, caller |-> auth.user.oid,
                          email |-> auth.user.email, kind |-> kind,
                          body |-> IF kind = "seva" THEN [list |-> Serialized(s)]
                                   ELSE IF kind = "room" THEN [list |-> Serialized(r)]
                                   ELSE [sevas |-> Serialized(s), rooms |-> Serialized(r)]]
    /\ UNCHANGED <<store, pending, tokenLog, nwrites, now>>

(***************************************************************************)
(* News and contact                                                        *)
(***************************************************************************)
ListNews ==
    /\ Idle
    /\ \E posts \in FindSorted(newsposts, "published_on") :
          last' = [op |-> "list_news", status |-> 200, body |-> Serialized(posts)]
    /\ UNCHANGED <<store, pending, tokenLog, nwrites, now>>

NewsCreatePayloads == [published_on : Days]

\* line 321-323, run once require_admin has passed
CreateNewsBody(payload) ==
    /\ Budget
    /\ newsposts' = CreateDocument("newspost", newsposts, payload)
    /\ nwrites' = nwrites + 1
    /\ last' = [op |-> "create_news", status |-> 200, adminChecked |-> TRUE,
                id |-> InsertedId("newspost", newsposts)]

CreateNews(h) ==
    /\ Idle
    /\ LET gate == RequireAdmin(h)
       IN IF gate.status # 200
          THEN /\ last' = Gated("create_news", gate)
               /\ UNCHANGED <<newsposts, nwrites>>
          ELSE \E payload \in NewsCreatePayloads : CreateNewsBody(payload)
    /\ UNCHANGED <<users, sevas, rooms, sevabookings, roombookings, contactmessages,
                   pending, tokenLog, now>>

ContactPayloads == [email : {"a@x"}]

Contact(payload) ==
    /\ Idle
    /\ Budget
    /\ contactmessages' = CreateDocument("contactmessage", contactmessages, payload)
    /\ nwrites' = nwrites + 1
    /\ last' = [op |-> "contact", status |-> 200,
                id |-> InsertedId("contactmessage", contactmessages)]
    /\ UNCHANGED <<users, sevas, rooms, sevabookings, roombookings, newsposts,
                   pending, tokenLog, now>>

(***************************************************************************)
(* POST /api/seed                                                          *)
(***************************************************************************)
SeedSevas == <<[cost |-> 100], [cost |-> 150], [cost |-> 250]>>
SeedRooms == <<[capacity |-> 2, price |-> 800], [capacity |-> 3, price |-> 1500]>>

\* for d in docs: create_document(name, d)
RECURSIVE CreateAll(_, _, _)
CreateAll(name, coll, docs) ==
    IF docs = <<>> THEN coll
    ELSE CreateAll(name, CreateDocument(name, coll, Head(docs)), Tail(docs))

\* faulty variant: the emptiness guards are missing
SeedCollectionsUnguarded(sv, rm) ==
    [sevas |-> CreateAll("seva", sv, SeedSevas), rooms |-> CreateAll("room", rm, SeedRooms)]

\* line 346-360: count_documents({}) == 0 guards each of the two loops
SeedCollections(sv, rm) ==
    [sevas |-> IF Len(sv) = 0 THEN CreateAll("seva", sv, SeedSevas) ELSE sv,
     rooms |-> IF Len(rm) = 0 THEN CreateAll("room", rm, SeedRooms) ELSE rm]

SeedBasic(h) ==
    /\ Idle
    /\ LET gate == RequireAdmin(h)
           seeded == SeedCollections(sevas, rooms)
           wrote == seeded.sevas # sevas \/ seeded.rooms # rooms
       IN IF gate.status # 200
          THEN /\ last' = Gated("seed_basic", gate)
               /\ UNCHANGED <<sevas, rooms, nwrites>>
          ELSE /\ wrote => Budget
               /\ sevas' = seeded.sevas
               /\ rooms' = seeded.rooms
               /\ nwrites' = IF wrote THEN nwrites + 1 ELSE nwrites
               /\ last' = [op |-> "seed_basic", status |-> 200, adminChecked |-> TRUE,
                           ok |-> TRUE]
    /\ UNCHANGED <<users, sevabookings, roombookings, newsposts, contactmessages,
                   pending, tokenLog, now>>

(***************************************************************************)
(* Environment                                                             *)
(***************************************************************************)
\* the response reaches the client
Deliver ==
    /\ last # NoResp
    /\ last' = NoResp
    /\ UNCHANGED <<store, pending, tokenLog, nwrites, now>>

\* time passes
Tick ==
    /\ Idle
    /\ now < MaxClock
    /\ now' = now + 1
    /\ UNCHANGED <<store, pending, tokenLog, nwrites, last>>

Next ==
    \/ ReadRoot
    \/ TestDatabase
    \/ \E payload \in RegisterPayloads : RegisterFind(payload)
    \/ \E req \in BagToSet(pending) : RegisterInsert(req)
    \/ \E payload \in LoginPayloads : LoginFind(payload)
    \/ \E req \in BagToSet(pending) : LoginUpdate(req)
    \/ \E h \in Headers : Me(h)
    \/ ListSevas
    \/ \E h \in Headers : CreateSeva(h)
    \/ ListRooms
    \/ \E h \in Headers : CreateRoom(h)
    \/ \E h \in Headers : BookSeva(h)
    \/ \E h \in Headers : BookRoom(h)
    \/ \E h \in Headers, kind \in Kinds : MyBookings(h, kind)
    \/ ListNews
    \/ \E h \in Headers : CreateNews(h)
    \/ \E payload \in ContactPayloads : Contact(payload)
    \/ \E h \in Headers : SeedBasic(h)
    \/ Deliver

Spec == Init /\ [][Next]_vars

(***************************************************************************)
(* A store the program reaches (admin login, register a@x, seed, a seva    *)
(* booking by the admin), from which the booking and listing handlers are  *)
(* explored further.                                                       *)
(***************************************************************************)
InitBooked ==
    /\ now = 0
    /\ users = <<[AdminUser EXCEPT !.session_token = 1],
                 [oid |-> <<"devoteeuser", 2>>, email |-> "a@x",
                  password_hash |-> HashPassword("q", 2), is_admin |-> FALSE,
                  session_token |-> 2, created_at |-> 0]>>
    /\ sevas = SeedCollections(<<>>, <<>>).sevas
    /\ rooms = SeedCollections(<<>>, <<>>).rooms
    /\ sevabookings = <<[oid |-> <<"sevabooking", 1>>, user_email |-> "root@x",
                          seva_id |-> Str(<<"seva", 1>>), date |-> 1, quantity |-> 1,
                          amount |-> SevaAmount(SeedSevas[1].cost, 1),
                          status |-> "confirmed", created_at |-> 0]>>
    /\ roombookings = <<>>
    /\ newsposts = <<>>
    /\ contactmessages = <<>>
    /\ pending = EmptyBag
    /\ tokenLog = <<<<(<<"devoteeuser", 1>>), 1>>, <<(<<"devoteeuser", 2>>), 2>>>>
    /\ nwrites = 0
    /\ last = NoResp

NextBookings ==
    \/ \E h \in Headers : BookSeva(h)
    \/ \E h \in Headers : BookRoom(h)
    \/ \E h \in Headers, kind \in Kinds : MyBookings(h, kind)
    \/ Deliver
    \/ Tick

SpecBookings == InitBooked /\ [][NextBookings]_vars

(***************************************************************************)
(* Properties                                                              *)
(***************************************************************************)
Range(seq) == {seq[i] : i \in DOMAIN seq}
Bearer(t) == [present |-> TRUE, prefix |-> "bEARER ", text |-> t]
Raw(t) == [present |-> TRUE, prefix |-> "", text |-> t]

\* the token a header presents belongs to user u
Presents(h, u) == ~HeaderEmpty(h) /\ StripBearer(h) # NoToken /\ u.session_token = StripBearer(h)

\* C1: no two user records have the same email, in every reachable state,
\* whatever the interleaving of concurrent register requests.
C1_EmailUnique ==
    \A i, j \in DOMAIN users : i # j => users[i].email # users[j].email

\* C2: the token a successful login returns resolves to the record of the user
\* who logged in; of the tokens issued to a user record (by registration or
\* login) only the latest resolves, every earlier one resolves to no user; and
\* at most one token resolves to any one user record.
C2_LoginRotatesToken ==
    /\ \A k \in DOMAIN tokenLog : \A h \in {Bearer(tokenLog[k][2]), Raw(tokenLog[k][2])} :
          LET latest == \A m \in DOMAIN tokenLog : m > k => tokenLog[m][1] # tokenLog[k][1]
              found == GetUserByToken(h)
          IN IF latest THEN found.status = 200 /\ found.user.oid = tokenLog[k][1]
             ELSE found.status = 401
    /\ \A u \in Range(users) :
          Cardinality({t \in TokenTexts : LET found == GetUserByToken(Bearer(t))
                                          IN found.status = 200 /\ found.user.oid = u.oid}) <= 1
    /\ (last.op = "login" /\ last.status = 200) =>
          LET found == GetUserByToken(Bearer(last.token))
          IN found.status = 200 /\ found.user.oid = last.oid
             /\ found.user.email = last.payload.email

C2_Witness ==
    /\ last.op = "login" /\ last.status = 200
    /\ \E k \in DOMAIN tokenLog : tokenLog[k][1] = last.oid /\ tokenLog[k][2] # last.token

AdminOps == {"create_seva", "create_room", "create_news", "seed_basic"}
AdminRoute(h) ==
    \/ last'.op = "create_seva" /\ CreateSeva(h)
    \/ last'.op = "create_room" /\ CreateRoom(h)
    \/ last'.op = "create_news" /\ CreateNews(h)
    \/ last'.op = "seed_basic" /\ SeedBasic(h)

\* C3: on an admin-gated route a caller without a header, or whose token
\* matches no user, gets 401 and the admin check is not evaluated; a caller
\* whose token belongs to a non-admin gets 403; neither inserts anything.
C3_AdminGate ==
    [][last'.op \in AdminOps =>
        \A h \in Headers : AdminRoute(h) =>
            /\ (\A u \in Range(users) : ~Presents(h, u)) =>
                  last'.status = 401 /\ ~last'.adminChecked /\ UNCHANGED store
            /\ (\E u \in Range(users) : Presents(h, u) /\ ~u.is_admin) =>
                  last'.status = 403 /\ UNCHANGED store]_vars

C3_Witness ==
    /\ last.op = "create_seva" /\ last.status = 403
    /\ \E u \in Range(users) : ~u.is_admin /\ u.session_token # NoToken

SevaExists(text) == \E s \in Range(sevas) : Str(s.oid) = text
RoomExists(text) == \E r \in Range(rooms) : Str(r.oid) = text

\* C4: for an authenticated caller, booking with any seva_id (room_id) that
\* identifies no catalog entry answers 404 and leaves both booking
\* collections unchanged.
C4_UnknownIdNotFound ==
    [][last'.op \in {"book_seva", "book_room"} =>
        \A u \in Range(users) :
           /\ \A payload \in SevaBookingPayloads :
                 (BookSevaBody(u, payload) /\ ~SevaExists(payload.seva_id)) =>
                    last'.status = 404 /\ UNCHANGED <<sevabookings, roombookings>>
           /\ \A payload \in RoomBookingPayloads :
                 (BookRoomBody(u, payload) /\ ~RoomExists(payload.room_id)) =>
                    last'.status = 404 /\ UNCHANGED <<sevabookings, roombookings>>]_vars

EmailStored(email) == \E u \in Range(users) : u.email = email

\* C5: a registration whose email a stored user already has answers 400
\* "Email already registered" and leaves the user collection as it was; a
\* registration that succeeded has stored its email, so a registration with
\* the same email handled after it fails, while one whose email is not stored
\* is not turned away.
C5_DuplicateEmailRejected ==
    [][/\ \A payload \in RegisterPayloads : RegisterFind(payload) =>
            IF EmailStored(payload.email)
            THEN /\ last'.status = 400 /\ last'.detail = "Email already registered"
                 /\ users' = users /\ pending' = pending
            ELSE last' = NoResp /\ BagIn([op |-> "register", payload |-> payload], pending')
       /\ \A req \in BagToSet(pending) : RegisterInsert(req) =>
            /\ last'.status = 200
            /\ Len(users') = Len(users) + 1
            /\ \E u \in Range(users') : u.email = req.payload.email]_vars

C5_Witness ==
    /\ last.op = "register" /\ last.status = 400 /\ last.payload.email = "a@x"
    /\ \E u \in Range(users) : u.email = "a@x" /\ ~u.is_admin

C7_QuantityValidatedFirst ==
    [][last'.op = "book_seva" =>
        \A u \in Range(users), payload \in SevaBookingPayloads :
           (BookSevaBody(u, payload) /\ SevaExists(payload.seva_id)) =>
              /\ payload.quantity < 1 =>
                    /\ last'.status = 400
                    /\ ~last'.lookedUp /\ ~last'.computed
                    /\ sevabookings' = sevabookings
              /\ (payload.quantity >= 1 /\ last'.status = 200) =>
                    \E s \in Range(sevas) :
                       /\ Str(s.oid) = payload.seva_id
                       /\ sevabookings'[Len(sevabookings')].amount = s.cost * payload.quantity]_vars

\* C8: seeding is idempotent: an admin's seed call leaves a non-empty seva
\* collection and a non-empty room collection as they are, leaves both
\* non-empty, and a further call right after it changes nothing; the sample
\* rows are never duplicated.
C8_SeedIdempotent ==
    [][last'.op = "seed_basic" =>
        \A h \in Headers : (SeedBasic(h) /\ last'.status = 200) =>
           /\ sevas # <<>> => sevas' = sevas
           /\ rooms # <<>> => rooms' = rooms
           /\ sevas = <<>> => Len(sevas') = Len(SeedSevas)
           /\ rooms = <<>> => Len(rooms') = Len(SeedRooms)
           /\ SeedCollections(sevas', rooms') = [sevas |-> sevas', rooms |-> rooms']
           /\ \A i, j \in DOMAIN sevas' : i # j => sevas'[i].oid # sevas'[j].oid
           /\ \A i, j \in DOMAIN rooms' : i # j => rooms'[i].oid # rooms'[j].oid]_vars

C8_Witness ==
    /\ last.op = "seed_basic" /\ last.status = 200
    /\ Len(sevas) = 1 /\ Len(rooms) = Len(SeedRooms)

\* list holds exactly the documents of own, newest created first
ExactlyNewestFirst(list, own) ==
    /\ Len(list) = Cardinality(own)
    /\ Range(list) = own
    /\ \A a, b \in DOMAIN list : a < b => list[a].created_at >= list[b].created_at

Own(coll, email) == {SerializeDoc(coll[i]) : i \in {j \in DOMAIN coll : coll[j].user_email = email}}

\* C9: for an authenticated user U, GET /api/bookings?kind=seva returns exactly
\* the sevabooking records whose user_email is U's email, newest created
\* first; kind=room the same over roombooking; without kind, both lists.
C9_OwnBookingsNewestFirst ==
    [][last'.op = "my_bookings" =>
        \A h \in Headers, kind \in Kinds :
           (last'.status = 200 /\ last'.kind = kind /\ MyBookings(h, kind)) =>
           \E u \in Range(users) :
              /\ Presents(h, u)
              /\ kind = "seva" => ExactlyNewestFirst(last'.body.list, Own(sevabookings, u.email))
              /\ kind = "room" => ExactlyNewestFirst(last'.body.list, Own(roombookings, u.email))
              /\ kind = "none" =>
                    /\ ExactlyNewestFirst(last'.body.sevas, Own(sevabookings, u.email))
                    /\ ExactlyNewestFirst(last'.body.rooms, Own(roombookings, u.email))]_vars

C9_Witness ==
    /\ last.op = "my_bookings" /\ last.status = 200 /\ last.kind = "seva"
    /\ Len(last.body.list) = 2
    /\ last.body.list[1].created_at > last.body.list[2].created_at
    /\ \E b \in Range(sevabookings) : b.user_email # last.email

\* store writes of one step: documents inserted, plus one for an update in place
Docs == Len(users) + Len(sevas) + Len(rooms) + Len(sevabookings) + Len(roombookings)
        + Len(newsposts) + Len(contactmessages)
StepWrites == (Docs' - Docs) + (IF Len(users') = Len(users) /\ users' # users THEN 1 ELSE 0)
ErrorStatuses == {400, 401, 403, 404}

\* C10 as stated: every handler writes at most once per request, and a request
\* that ends in 400/401/403/404 has written nothing.
C10_AtMostOneWrite ==
    [][/\ StepWrites <= 1
       /\ (last'.status \in ErrorStatuses /\ last' # last) => UNCHANGED store]_vars

\* C10 as amended: every handler but POST /api/seed writes at most once per
\* request; POST /api/seed inserts one document per sample row it adds, up to
\* five; a request that ends in 400/401/403/404 has written nothing.
C10_OneWriteExceptSeed ==
    [][/\ last'.op # "seed_basic" => StepWrites <= 1
       /\ last'.op = "seed_basic" => StepWrites <= Len(SeedSevas) + Len(SeedRooms)
       /\ (last'.status \in ErrorStatuses /\ last' # last) => UNCHANGED store]_vars

C10_Witness ==
    /\ last.op = "book_room" /\ last.status = 400
    /\ last.detail = "Check-out must be after check-in"
    /\ sevas # <<>>
====
